---------------------------- MODULE Spec2Model ----------------------------
(***************************************************************************)
(* A model of NER.__format_tagged_tokens (src/namedentityrecognizer.py).   *)
(*                                                                         *)
(* Strings are sequences of one-character strings, so that capitalize(),   *)
(* concatenation and ' '.join are computed character by character.         *)
(* Python indices are kept as the code has them (0-based keys of the two   *)
(* dictionaries, 0-based i, j, k); tuples are TLA+ sequences, so the       *)
(* Python element t[n] is the TLA+ element t[n + 1].                       *)
(*                                                                         *)
(* Every call of the method has its own activation record; the state is    *)
(* therefore indexed by the call.  Spec runs one call on any input of the  *)
(* bounded input set, SpecConc runs two calls whose steps interleave.      *)
(***************************************************************************)
EXTENDS Integers, Sequences, FiniteSets, TLC

\* ------------------------------------------------------------------ bounds
\* longest list of well-formed (token, entity) pairs given to one call
MaxLen == 4
\* longest list of ragged tuples (1, 2 or 3 fields) given to one call
MaxBadLen == 3
\* longest list given to each of two concurrent calls
MaxConcLen == 2

\* the calls of the method that exist in a behaviour
Calls == {1, 2}

\* ------------------------------------------------------- Python str helpers
UpperAlpha == <<"A", "B", "C", "D", "E", "F", "G", "H", "I", "J", "K", "L", "M",
                "N", "O", "P", "Q", "R", "S", "T", "U", "V", "W", "X", "Y", "Z">>
LowerAlpha == <<"a", "b", "c", "d", "e", "f", "g", "h", "i", "j", "k", "l", "m",
                "n", "o", "p", "q", "r", "s", "t", "u", "v", "w", "x", "y", "z">>

\* str.upper() of one character
upper(c) ==
    IF \E n \in 1..26 : LowerAlpha[n] = c
    THEN UpperAlpha[CHOOSE n \in 1..26 : LowerAlpha[n] = c]
    ELSE c

\* str.lower() of one character
lower(c) ==
    IF \E n \in 1..26 : UpperAlpha[n] = c
    THEN LowerAlpha[CHOOSE n \in 1..26 : UpperAlpha[n] = c]
    ELSE c

\* str.capitalize(): first character upper-cased, the rest lower-cased
capitalize(s) ==
    [n \in 1..Len(s) |-> IF n = 1 THEN upper(s[n]) ELSE lower(s[n])]

\* ' '.join(parts)
RECURSIVE join(_)
join(parts) ==
    IF Len(parts) = 0 THEN <<>>
    ELSE IF Len(parts) = 1 THEN parts[1]
    ELSE parts[1] \o <<" ">> \o join(Tail(parts))

\* ------------------------------------------------ the code's string literals
Person == <<"P", "e", "r", "s", "o", "n">>
Organization == <<"O", "r", "g", "a", "n", "i", "z", "a", "t", "i", "o", "n">>
Location == <<"L", "o", "c", "a", "t", "i", "o", "n">>

\* the list the render loop tests membership in
EntityTagsNoLocation == {Person, Organization}
EntityTagsWithO == {Person, Organization, Location, <<"O">>}
EntityTags == {Person, Organization, Location}

\* the comparison that decides whether token j joins the current span
SameEntityNever(cur, prev) == FALSE
SameEntityFirstChar(cur, prev) == cur[1] = prev[1]
SameEntity(cur, prev) == cur = prev

\* the text of a span after one more token is concatenated to it
ConcatNoSpace(text, token) == text \o token
ConcatToken(text, token) == text \o <<" ">> \o token

\* '<' + ent + '>' + text + '</' + ent + '>'
WrapUnclosed(ent, text) == <<"<">> \o ent \o <<">">> \o text \o <<"<">> \o ent \o <<">">>
Wrap(ent, text) == <<"<">> \o ent \o <<">">> \o text \o <<"<", "/">> \o ent \o <<">">>

\* dictionary assignment d[key] = value
PutKeepOld(d, key, value) == d
Put(d, key, value) ==
    [x \in (DOMAIN d) \cup {key} |-> IF x = key THEN value ELSE d[x]]

\* the dictionary with no key
EmptyDict == [x \in {} |-> <<>>]

\* zip(*tuple_list): one tuple per field position, as many as the shortest
\* element has fields; zip() of no argument is empty
MinArity(tl) == CHOOSE m \in {Len(tl[r]) : r \in 1..Len(tl)} :
                    \A r \in 1..Len(tl) : m <= Len(tl[r])
Zip(tl) ==
    IF Len(tl) = 0 THEN <<>>
    ELSE [c \in 1..MinArity(tl) |-> [r \in 1..Len(tl) |-> tl[r][c]]]

\* (token_tuple, ent_tuple) = list(...): exactly two values unpack, any other
\* number raises ValueError
Unpack(z) ==
    IF Len(z) = 2
    THEN [exc |-> "none", token_tuple |-> z[1], ent_tuple |-> z[2]]
    ELSE [exc |-> "ValueError", token_tuple |-> <<>>, ent_tuple |-> <<>>]

\* the activation record in which call p's names i, j and k live: its own
SharedLocals(p) == 1
Locals(p) == p

\* ------------------------------------------------------------------- inputs
tok_a == <<"a">>
tok_b == <<"b">>
tok_lt == <<"<">>
tok_tag == <<"<", "b", ">">>
L_PERSON == <<"P", "E", "R", "S", "O", "N">>
L_Person == <<"P", "e", "r", "s", "o", "n">>
L_LOCATION == <<"L", "O", "C", "A", "T", "I", "O", "N">>
L_location == <<"l", "o", "c", "a", "t", "i", "o", "n">>
L_ORGANIZATION == <<"O", "R", "G", "A", "N", "I", "Z", "A", "T", "I", "O", "N">>
L_MISC == <<"M", "I", "S", "C">>
L_O == <<"O">>

SeqsUpTo(S, n) == UNION {[1..m -> S] : m \in 0..n}

\* well-formed (token, entity) pairs
Pairs == {<<t, e>> : t \in {tok_a, tok_b}, e \in {L_PERSON, L_Person, L_LOCATION, L_O}}

\* tuples with a missing entity or with an extra field, beside well-formed ones
RaggedElems == {<<tok_a>>, <<tok_a, L_O>>, <<tok_b, L_PERSON>>, <<tok_a, L_O, tok_b>>}

\* the example of the module's docstring, as the tagger returns it
Scenario1 ==
    << <<<<"T", "i", "m">>, L_PERSON>>, <<<<"w", "e", "n", "t">>, L_O>>,
       <<<<"t", "o">>, L_O>>, <<<<"J", "P">>, L_ORGANIZATION>>,
       <<<<"M", "o", "r", "g", "a", "n">>, L_ORGANIZATION>>,
       <<<<"o", "f", "f", "i", "c", "e">>, L_O>>, <<<<"i", "n">>, L_O>>,
       <<<<"N", "e", "w">>, L_LOCATION>>, <<<<"Y", "o", "r", "k">>, L_LOCATION>>,
       <<<<".">>, L_O>> >>

\* further inputs: other label spellings, unknown labels, tokens that hold
\* angle brackets
Scenarios ==
    { Scenario1,
      << <<<<"A", "c", "m", "e">>, L_ORGANIZATION>> >>,
      << <<tok_a, L_MISC>>, <<tok_b, L_MISC>> >>,
      << <<tok_a, L_location>>, <<tok_b, L_LOCATION>> >>,
      << <<tok_a, L_LOCATION>>, <<tok_b, L_location>>, <<tok_a, L_location>> >>,
      << <<tok_a, L_MISC>>, <<tok_b, L_O>>, <<tok_a, L_ORGANIZATION>>, <<tok_b, L_ORGANIZATION>> >>,
      << <<tok_a, L_PERSON>>, <<tok_b, L_O>>, <<tok_a, L_PERSON>> >>,
      << <<tok_lt, L_O>>, <<tok_a, L_PERSON>> >>,
      << <<tok_lt, L_PERSON>> >>,
      << <<tok_tag, L_O>>, <<tok_a, L_O>> >> }

Inputs == SeqsUpTo(Pairs, MaxLen) \cup SeqsUpTo(RaggedElems, MaxBadLen) \cup Scenarios

ConcPairs == {<<tok_a, L_PERSON>>, <<tok_b, L_O>>, <<tok_b, L_PERSON>>}
ConcInputs == SeqsUpTo(ConcPairs, MaxConcLen)

\* -------------------------------------------------------------------- state
VARIABLES
    self_st,            \* the NER object's field st (set by __init__)
    tuple_list,         \* per call: the argument
    pc,                 \* per call: where the call is
    outcome,            \* per call: "pending", "returned" or the exception raised
    token_tuple,        \* per call: the locals of the method
    ent_tuple,
    idx_to_token_map,
    idx_to_ent_map,
    output_token_list,
    i, j, k,            \* per activation record: span index and loop counters
    output_text,        \* per call: the string returned
    span_of             \* per call (history): span_of[n] = key of the span that
                        \* received token n (1-based position in token_tuple)

vars == <<self_st, tuple_list, pc, outcome, token_tuple, ent_tuple,
          idx_to_token_map, idx_to_ent_map, output_token_list, i, j, k,
          output_text, span_of>>

InitLocals ==
    /\ self_st = "StanfordNERTagger"
    /\ outcome = [p \in Calls |-> "pending"]
    /\ token_tuple = [p \in Calls |-> <<>>]
    /\ ent_tuple = [p \in Calls |-> <<>>]
    /\ idx_to_token_map = [p \in Calls |-> EmptyDict]
    /\ idx_to_ent_map = [p \in Calls |-> EmptyDict]
    /\ output_token_list = [p \in Calls |-> <<>>]
    /\ i = [p \in Calls |-> 0]
    /\ j = [p \in Calls |-> 0]
    /\ k = [p \in Calls |-> 0]
    /\ output_text = [p \in Calls |-> <<>>]
    /\ span_of = [p \in Calls |-> <<>>]

\* one call, on any input
Init ==
    /\ InitLocals
    /\ \E tl \in Inputs : tuple_list = [p \in Calls |-> IF p = 1 THEN tl ELSE <<>>]
    /\ pc = [p \in Calls |-> IF p = 1 THEN "start" ELSE "idle"]

\* two calls at once
InitConc ==
    /\ InitLocals
    /\ tuple_list \in [Calls -> ConcInputs]
    /\ pc = [p \in Calls |-> "start"]

\* raise exc out of the method: nothing is returned
RaiseReturnsEmpty(p, exc) ==
    /\ pc' = [pc EXCEPT ![p] = "done"]
    /\ outcome' = [outcome EXCEPT ![p] = "returned"]
Raise(p, exc) ==
    /\ pc' = [pc EXCEPT ![p] = "raised"]
    /\ outcome' = [outcome EXCEPT ![p] = exc]

\* line 95
Unzip(p) ==
    /\ pc[p] = "start"
    /\ LET u == Unpack(Zip(tuple_list[p])) IN
        IF u.exc = "none"
        THEN /\ token_tuple' = [token_tuple EXCEPT ![p] = u.token_tuple]
             /\ ent_tuple' = [ent_tuple EXCEPT ![p] = u.ent_tuple]
             /\ pc' = [pc EXCEPT ![p] = "init"]
             /\ UNCHANGED outcome
        ELSE /\ Raise(p, u.exc)
             /\ UNCHANGED <<token_tuple, ent_tuple>>
    /\ UNCHANGED <<self_st, tuple_list, idx_to_token_map, idx_to_ent_map,
                   output_token_list, i, j, k, output_text, span_of>>

\* lines 99-109 and the start of the loop of line 118
InitMaps(p) ==
    /\ pc[p] = "init"
    /\ IF Len(token_tuple[p]) = 0 \/ Len(ent_tuple[p]) = 0
       THEN /\ Raise(p, "IndexError")
            /\ UNCHANGED <<idx_to_token_map, idx_to_ent_map, output_token_list,
                           i, j, span_of>>
       ELSE /\ idx_to_token_map' =
                  [idx_to_token_map EXCEPT ![p] = Put(EmptyDict, 0, token_tuple[p][1])]
            /\ idx_to_ent_map' =
                  [idx_to_ent_map EXCEPT ![p] = Put(EmptyDict, 0, capitalize(ent_tuple[p][1]))]
            /\ output_token_list' = [output_token_list EXCEPT ![p] = <<>>]
            /\ i' = [i EXCEPT ![Locals(p)] = 0]
            /\ j' = [j EXCEPT ![Locals(p)] = 1]
            /\ span_of' = [span_of EXCEPT ![p] = <<0>>]
            /\ pc' = [pc EXCEPT ![p] = "scan"]
            /\ UNCHANGED outcome
    /\ UNCHANGED <<self_st, tuple_list, token_tuple, ent_tuple, k, output_text>>

\* one iteration of the loop of lines 118-124
ScanStep(p) ==
    LET f == Locals(p)
        n == j[f] + 1
    IN
    /\ pc[p] = "scan"
    /\ j[f] < Len(token_tuple[p])
    /\ IF SameEntity(ent_tuple[p][n], ent_tuple[p][n - 1])
       THEN IF i[f] \in DOMAIN idx_to_token_map[p]
            THEN /\ idx_to_token_map' =
                       [idx_to_token_map EXCEPT ![p] =
                           Put(@, i[f], ConcatToken(@[i[f]], token_tuple[p][n]))]
                 /\ span_of' = [span_of EXCEPT ![p] = Append(@, i[f])]
                 /\ j' = [j EXCEPT ![f] = @ + 1]
                 /\ UNCHANGED <<idx_to_ent_map, i, pc, outcome>>
            ELSE /\ Raise(p, "KeyError")
                 /\ UNCHANGED <<idx_to_token_map, idx_to_ent_map, i, j, span_of>>
       ELSE /\ i' = [i EXCEPT ![f] = @ + 1]
            /\ idx_to_token_map' =
                  [idx_to_token_map EXCEPT ![p] = Put(@, i[f] + 1, token_tuple[p][n])]
            /\ idx_to_ent_map' =
                  [idx_to_ent_map EXCEPT ![p] =
                      Put(@, i[f] + 1, capitalize(ent_tuple[p][n]))]
            /\ span_of' = [span_of EXCEPT ![p] = Append(@, i[f] + 1)]
            /\ j' = [j EXCEPT ![f] = @ + 1]
            /\ UNCHANGED <<pc, outcome>>
    /\ UNCHANGED <<self_st, tuple_list, token_tuple, ent_tuple, output_token_list,
                   k, output_text>>

\* range(1, len(token_tuple)) is exhausted; the loop of line 128 starts
ScanEnd(p) ==
    /\ pc[p] = "scan"
    /\ j[Locals(p)] >= Len(token_tuple[p])
    /\ k' = [k EXCEPT ![Locals(p)] = 0]
    /\ pc' = [pc EXCEPT ![p] = "render"]
    /\ UNCHANGED <<self_st, tuple_list, outcome, token_tuple, ent_tuple,
                   idx_to_token_map, idx_to_ent_map, output_token_list, i, j,
                   output_text, span_of>>

\* one iteration of the loop of lines 128-134
RenderStep(p) ==
    LET f == Locals(p) IN
    /\ pc[p] = "render"
    /\ k[f] < Cardinality(DOMAIN idx_to_token_map[p])
    /\ IF k[f] \notin DOMAIN idx_to_ent_map[p] \/ k[f] \notin DOMAIN idx_to_token_map[p]
       THEN /\ Raise(p, "KeyError")
            /\ UNCHANGED <<output_token_list, k>>
       ELSE /\ output_token_list' =
                  [output_token_list EXCEPT ![p] =
                      Append(@, IF idx_to_ent_map[p][k[f]] \in EntityTags
                                THEN Wrap(idx_to_ent_map[p][k[f]], idx_to_token_map[p][k[f]])
                                ELSE idx_to_token_map[p][k[f]])]
            /\ k' = [k EXCEPT ![f] = @ + 1]
            /\ UNCHANGED <<pc, outcome>>
    /\ UNCHANGED <<self_st, tuple_list, token_tuple, ent_tuple, idx_to_token_map,
                   idx_to_ent_map, i, j, output_text, span_of>>

\* lines 137-139
JoinReturn(p) ==
    /\ pc[p] = "render"
    /\ k[Locals(p)] >= Cardinality(DOMAIN idx_to_token_map[p])
    /\ output_text' = [output_text EXCEPT ![p] = join(output_token_list[p])]
    /\ pc' = [pc EXCEPT ![p] = "done"]
    /\ outcome' = [outcome EXCEPT ![p] = "returned"]
    /\ UNCHANGED <<self_st, tuple_list, token_tuple, ent_tuple, idx_to_token_map,
                   idx_to_ent_map, output_token_list, i, j, k, span_of>>

Next ==
    \/ \E p \in Calls : Unzip(p)
    \/ \E p \in Calls : InitMaps(p)
    \/ \E p \in Calls : ScanStep(p)
    \/ \E p \in Calls : ScanEnd(p)
    \/ \E p \in Calls : RenderStep(p)
    \/ \E p \in Calls : JoinReturn(p)

Spec == Init /\ [][Next]_vars

SpecConc == InitConc /\ [][Next]_vars


\* ------------------------------------------------------- reading the state
Done(p) == pc[p] = "done"

\* the normal form of a label: first letter upper-case, the rest lower-case
Norm(label) == capitalize(label)

\* the three categories that are marked up
Recognized ==
    { <<"P", "e", "r", "s", "o", "n">>,
      <<"O", "r", "g", "a", "n", "i", "z", "a", "t", "i", "o", "n">>,
      <<"L", "o", "c", "a", "t", "i", "o", "n">> }

\* a non-empty list of (token, entity) pairs
WellFormed(tl) == Len(tl) > 0 /\ \A r \in 1..Len(tl) : Len(tl[r]) = 2

\* the elements of seq at the positions in S, in order, from position n on
RECURSIVE Pick(_, _, _)
Pick(seq, S, n) ==
    IF n > Len(seq) THEN <<>>
    ELSE (IF n \in S THEN <<seq[n]>> ELSE <<>>) \o Pick(seq, S, n + 1)

\* the tokens that went into span s of call p, in input order
SpanTokens(p, s) ==
    Pick(token_tuple[p], {x \in 1..Len(span_of[p]) : span_of[p][x] = s}, 1)

\* <L>text</L>, written out
Tagged(L, text) == <<"<">> \o L \o <<">">> \o text \o <<"<", "/">> \o L \o <<">">>

\* no token of call p holds an angle bracket
PlainTokens(p) ==
    \A x \in 1..Len(token_tuple[p]) :
        \A c \in 1..Len(token_tuple[p][x]) : token_tuple[p][x][c] \notin {"<", ">"}

\* the elements of the set of positions S in increasing order
Ordered(S) ==
    [q \in 1..Cardinality(S) |-> CHOOSE n \in S : Cardinality({m \in S : m < n}) = q - 1]

\* position n of s lies inside a tag: the nearest angle bracket before it opens
InTag(s, n) ==
    LET before == {m \in 1..(n - 1) : s[m] \in {"<", ">"}} IN
    before # {} /\ s[CHOOSE m \in before : \A m2 \in before : m2 <= m] = "<"

\* s without its tags: every "<", every ">" and what stands between them
StripMarkup(s) ==
    LET kept == Ordered({n \in 1..Len(s) : s[n] \notin {"<", ">"} /\ ~InTag(s, n)})
    IN [q \in 1..Len(kept) |-> s[kept[q]]]

\* the tags of s, left to right: for each "<" what follows it up to the next
\* angle bracket (or up to the end when none follows)
Tags(s) ==
    LET opens == Ordered({n \in 1..Len(s) : s[n] = "<"})
        stop(n) == LET after == {m \in (n + 1)..Len(s) : s[m] \in {"<", ">"}}
                   IN IF after = {} THEN Len(s) + 1
                      ELSE CHOOSE m \in after : \A m2 \in after : m <= m2
    IN [q \in 1..Len(opens) |-> SubSeq(s, opens[q] + 1, stop(opens[q]) - 1)]

\* the number of positions 2..upto of ents whose raw label differs from the
\* raw label before it
RawChanges(ents, upto) == Cardinality({x \in 2..upto : ents[x] # ents[x - 1]})

\* what a call returns for a well-formed non-empty list when it runs alone: the
\* spans are grouped in one pass, rendered and joined
RECURSIVE GroupFrom(_, _, _)
GroupFrom(tl, n, spans) ==
    IF n > Len(tl) THEN spans
    ELSE IF SameEntity(tl[n][2], tl[n - 1][2])
         THEN GroupFrom(tl, n + 1,
                  [spans EXCEPT ![Len(spans)].text = ConcatToken(@, tl[n][1])])
         ELSE GroupFrom(tl, n + 1,
                  Append(spans, [ent |-> capitalize(tl[n][2]), text |-> tl[n][1]]))
FormatAlone(tl) ==
    LET spans == GroupFrom(tl, 2, <<[ent |-> capitalize(tl[1][2]), text |-> tl[1][1]]>>)
    IN join([s \in 1..Len(spans) |->
                IF spans[s].ent \in EntityTags
                THEN Wrap(spans[s].ent, spans[s].text)
                ELSE spans[s].text])

Scenario1Expected ==
    <<"<", "P", "e", "r", "s", "o", "n", ">", "T", "i", "m", "<", "/", "P", "e", "r",
      "s", "o", "n", ">", " ", "w", "e", "n", "t", " ", "t", "o", " ", "<", "O", "r",
      "g", "a", "n", "i", "z", "a", "t", "i", "o", "n", ">", "J", "P", " ", "M", "o",
      "r", "g", "a", "n", "<", "/", "O", "r", "g", "a", "n", "i", "z", "a", "t", "i",
      "o", "n", ">", " ", "o", "f", "f", "i", "c", "e", " ", "i", "n", " ", "<", "L",
      "o", "c", "a", "t", "i", "o", "n", ">", "N", "e", "w", " ", "Y", "o", "r", "k",
      "<", "/", "L", "o", "c", "a", "t", "i", "o", "n", ">", " ", ".">>

\* ------------------------------------------------------------------- claims

C2_SpansPartitionTokens ==
    \A p \in Calls : Done(p) =>
        LET n == Len(token_tuple[p])
            m == Cardinality(DOMAIN idx_to_token_map[p])
        IN /\ n = Len(tuple_list[p])
           /\ \A x \in 1..n : token_tuple[p][x] = tuple_list[p][x][1]
           /\ Len(span_of[p]) = n
           /\ span_of[p][1] = 0
           /\ span_of[p][n] = m - 1
           /\ \A x \in 1..(n - 1) : span_of[p][x + 1] \in {span_of[p][x], span_of[p][x] + 1}
           /\ DOMAIN idx_to_token_map[p] = 0..(m - 1)
           /\ \A s \in 0..(m - 1) : idx_to_token_map[p][s] = join(SpanTokens(p, s))
           /\ join([s \in 1..m |-> idx_to_token_map[p][s - 1]]) = join(token_tuple[p])
           /\ Len(output_token_list[p]) = m
           /\ \A s \in 0..(m - 1) :
                  \/ output_token_list[p][s + 1] = idx_to_token_map[p][s]
                  \/ \E L \in Recognized :
                        output_token_list[p][s + 1] = Tagged(L, idx_to_token_map[p][s])
           /\ output_text[p] = join(output_token_list[p])
           /\ PlainTokens(p) => StripMarkup(output_text[p]) = join(token_tuple[p])

C2_Witness ==
    \E p \in Calls :
        /\ Done(p)
        /\ Len(token_tuple[p]) >= 3
        /\ Cardinality(DOMAIN idx_to_token_map[p]) = 2
        /\ token_tuple[p][1] # token_tuple[p][2]
        /\ span_of[p][1] = span_of[p][2]
        /\ \E L \in Recognized : output_token_list[p][1] = Tagged(L, idx_to_token_map[p][0])
        /\ StripMarkup(output_text[p]) = join(token_tuple[p])

C4_EmptyInputRaises ==
    \A p \in Calls :
        (tuple_list[p] = <<>> /\ pc[p] \notin {"idle", "start"}) =>
            /\ pc[p] = "raised"
            /\ outcome[p] = "ValueError"
            /\ idx_to_token_map[p] = EmptyDict
            /\ output_token_list[p] = <<>>
            /\ output_text[p] = <<>>

C4_Witness ==
    \E p \in Calls : tuple_list[p] = <<>> /\ pc[p] = "raised" /\ outcome[p] = "ValueError"

\* C5: in a finished call whose tokens hold no angle bracket, the tags of the
\* output read left to right come in pairs: an opening tag named Person,
\* Organization or Location, then at once the closing tag of the same name.
C5_TagsAlternate ==
    \A p \in Calls : (Done(p) /\ PlainTokens(p)) =>
        LET tg == Tags(output_text[p]) IN
        /\ Len(tg) % 2 = 0
        /\ \A q \in 1..Len(tg) :
              IF q % 2 = 1
              THEN tg[q] \in Recognized
              ELSE tg[q] = <<"/">> \o tg[q - 1]

C5_Witness ==
    \E p \in Calls :
        /\ Done(p)
        /\ PlainTokens(p)
        /\ Len(Tags(output_text[p])) >= 4
        /\ Tags(output_text[p])[1] # Tags(output_text[p])[3]

\* C6: in a finished call, two neighbouring tokens whose labels differ after
\* normalization are in different spans: the second opens the next span, whose
\* label is its own normalized label and whose text starts with it, and the
\* first ends the span before.
C6_NormDifferentSplit ==
    \A p \in Calls : Done(p) =>
        \A x \in 1..(Len(token_tuple[p]) - 1) :
            Norm(ent_tuple[p][x]) # Norm(ent_tuple[p][x + 1]) =>
                LET s == span_of[p][x + 1]
                    tok == token_tuple[p][x + 1]
                IN /\ s = span_of[p][x] + 1
                   /\ s \in DOMAIN idx_to_ent_map[p]
                   /\ idx_to_ent_map[p][s] = Norm(ent_tuple[p][x + 1])
                   /\ SpanTokens(p, s)[1] = tok
                   /\ SpanTokens(p, s - 1)[Len(SpanTokens(p, s - 1))] = token_tuple[p][x]
                   /\ SubSeq(idx_to_token_map[p][s], 1, Len(tok)) = tok
                   /\ Len(output_token_list[p]) > s
                   /\ output_token_list[p][s] # output_token_list[p][s + 1]
                          \/ token_tuple[p][x] = tok

C6_Witness ==
    \E p \in Calls : Done(p) /\
        \E x \in 1..(Len(token_tuple[p]) - 1) :
            /\ Norm(ent_tuple[p][x]) # Norm(ent_tuple[p][x + 1])
            /\ Norm(ent_tuple[p][x]) \in Recognized
            /\ Norm(ent_tuple[p][x + 1]) \in Recognized
            /\ span_of[p][x + 1] = span_of[p][x] + 1

\* C7: a call on a non-empty list of pairs none of whose normalized labels is
\* Person, Organization or Location never raises, and returns the tokens
\* joined by single spaces.
C7_NoEntityPlainText ==
    \A p \in Calls :
        (/\ WellFormed(tuple_list[p])
         /\ \A r \in 1..Len(tuple_list[p]) : Norm(tuple_list[p][r][2]) \notin Recognized)
        => /\ pc[p] # "raised"
           /\ Done(p) =>
                /\ output_text[p] = join([r \in 1..Len(tuple_list[p]) |-> tuple_list[p][r][1]])
                /\ PlainTokens(p) => Tags(output_text[p]) = <<>>

C7_Witness ==
    \E p \in Calls :
        /\ Done(p)
        /\ Len(tuple_list[p]) >= 2
        /\ WellFormed(tuple_list[p])
        /\ \A r \in 1..Len(tuple_list[p]) : Norm(tuple_list[p][r][2]) \notin Recognized
        /\ \E r \in 1..Len(tuple_list[p]) : tuple_list[p][r][2] # <<"O">>
        /\ output_text[p] = join(token_tuple[p])

\* C8 as stated: a call on a list with an element that is not a pair (its label
\* missing, or an extra field) never returns a string.
C8_MalformedNeverReturns ==
    \A p \in Calls :
        (\E r \in 1..Len(tuple_list[p]) : Len(tuple_list[p][r]) # 2)
            => outcome[p] # "returned"

\* C9: with two calls running at once, each finished call has returned the
\* string the method returns for its input when run alone, two calls on the
\* same input return the same string, no call raises on a non-empty list, and
\* no step changes the NER object's field or an argument.
C9_CallsIndependent ==
    /\ [](\A p \in Calls :
            /\ Done(p) => output_text[p] = FormatAlone(tuple_list[p])
            /\ pc[p] = "raised" => tuple_list[p] = <<>>
            /\ \A q \in Calls :
                  (Done(p) /\ Done(q) /\ tuple_list[p] = tuple_list[q])
                      => output_text[p] = output_text[q])
    /\ [][self_st' = self_st /\ tuple_list' = tuple_list]_vars

C9_Witness ==
    /\ Done(1) /\ Done(2)
    /\ Len(tuple_list[1]) >= 2 /\ Len(tuple_list[2]) >= 2
    /\ tuple_list[1] # tuple_list[2]
    /\ output_text[1] # output_text[2]
    /\ i[1] # i[2]

\* C10: from the start of the scan on, the keys of both dictionaries are
\* exactly 0..i, i is the number of scanned positions whose raw label differs
\* from the one before, and the scan has made one iteration per position after
\* the first; when the scan is over it has made n-1 iterations, the render
\* loop reads no missing key, and a finished call has emitted one piece per
\* span, 1 + the number of raw label changes.
C10_ScanInvariant ==
    \A p \in Calls : pc[p] \in {"scan", "render", "done"} =>
        LET n == Len(token_tuple[p]) IN
        /\ DOMAIN idx_to_token_map[p] = 0..i[p]
        /\ DOMAIN idx_to_ent_map[p] = 0..i[p]
        /\ j[p] \in 1..n
        /\ Len(span_of[p]) = j[p]
        /\ i[p] = RawChanges(ent_tuple[p], j[p])
        /\ pc[p] \in {"render", "done"} => (j[p] = n /\ Len(span_of[p]) - 1 = n - 1)
        /\ pc[p] = "render" => Len(output_token_list[p]) = k[p] /\ k[p] <= i[p] + 1
        /\ outcome[p] # "KeyError"
        /\ Done(p) => Len(output_token_list[p]) = 1 + RawChanges(ent_tuple[p], n)

C10_Witness ==
    \E p \in Calls :
        /\ Done(p)
        /\ Len(token_tuple[p]) = 10
        /\ i[p] = 5
        /\ Len(output_token_list[p]) = 6

=============================================================================
